---- MODULE Spec2Model ----
(***************************************************************************)
(* Live-inference pipeline of the Weed-Detector UI (src/App.tsx) and the   *)
(* analyzer service it calls (src/services/geminiService.ts).              *)
(*                                                                         *)
(* The React component is modelled as a state machine: the useState cells  *)
(* are variables, every event handler, timer callback and promise          *)
(* continuation is one action, and the effects that React runs when a      *)
(* dependency changes (the inference-loop effect on [stream], the          *)
(* devicechange effect on [getDevices]) are part of the action that        *)
(* changes the dependency.                                                 *)
(***************************************************************************)
EXTENDS Integers, Sequences, FiniteSets, Bags, TLC

(***************************************************************************)
(* Bounds of the model                                                     *)
(***************************************************************************)
\* streams the platform hands out to start / switchDevice in one behaviour
MaxStreams == 2
\* getUserMedia calls of toggleCamera / handleDeviceChange awaiting the platform
MaxPending == 2
\* calls of analyzeWeedImage that have not returned yet
MaxInflight == 2
\* getDevices runs awaiting the platform at the same time
MaxRuns == 2
\* devices in one enumeration (registry specification)
MaxDevices == 3
\* detections in one response (cycle specification)
MaxBatch == 2
\* the largest value of Date.now(), in milliseconds from the first reconciliation
\* (cycle specification)
MaxTime == 1

(***************************************************************************)
(* Values                                                                  *)
(***************************************************************************)
\* stream === null
NoStream == 0

\* selectedDeviceId === ''
NoDevice == ""

\* d.bbox undefined (an empty array is dropped by the same test, App.tsx:225)
NoBox == <<>>

Categories == {"Fat Hen", "Redshank"}

\* all sequences over S of length at most n
RECURSIVE SeqsUpTo(_, _)
SeqsUpTo(S, n) ==
    IF n = 0 THEN {<<>>}
    ELSE LET shorter == SeqsUpTo(S, n - 1)
         IN  shorter \cup {Append(s, x) : s \in {t \in shorter : Len(t) = n - 1}, x \in S}

\* one item of the detections array of the response JSON
ApiDetection(type, box) == [weedType |-> type, confidence |-> 90, box_2d |-> box]

\* [ymin, xmin, ymax, xmax] = [0.1, 0.2, 0.4, 0.6]
FullBox == <<1, 2, 4, 6>>

\* [0.2, 0.4, 0.3, 0.9]
SlimBox == <<2, 4, 3, 9>>

\* a box_2d array with fewer than 4 numbers
ShortBox == <<1, 2>>

\* the arrays of 4 numbers the responses explored carry
Boxes == {FullBox, SlimBox}

\* the detections arrays explored together with the capture session: empty, one
\* region, a detection without a usable box, known category without region,
\* two regions
ApiBatches ==
    { <<>>,
      <<ApiDetection("Fat Hen", FullBox)>>,
      <<ApiDetection("Redshank", FullBox)>>,
      <<ApiDetection("Redshank", NoBox)>>,
      <<ApiDetection("Fat Hen", ShortBox)>>,
      <<ApiDetection("Fat Hen", FullBox), ApiDetection("Redshank", NoBox)>>,
      <<ApiDetection("Redshank", FullBox), ApiDetection("Fat Hen", FullBox)>> }

\* what the request to the model can come to (geminiService.ts:39-121)
ApiOutcomes ==
    [kind : {"json"}, cropContext : {"Beet"}, estimatedYieldLoss : {12},
     herbicideDosage : {3}, detections : ApiBatches]
      \cup [kind : {"jsonNoDetections", "emptyText", "badJson", "networkError",
                    "message429", "status429", "resourceExhausted"}]

FailureKinds ==
    {"emptyText", "badJson", "networkError", "message429", "status429", "resourceExhausted"}

(***************************************************************************)
(* JavaScript numbers: IEEE-754 binary64, round to nearest, ties to even.  *)
(* A finite number >= 0 is [sig, exp] with value sig * 2^exp, sig a        *)
(* sequence of bits, least significant first, whose first bit is 1 (zero   *)
(* is the empty sequence with exp 0), so equal numbers are equal records.  *)
(* Subnormals, infinities and negative numbers do not occur for boxes with *)
(* 0 <= min <= max <= 1.                                                   *)
(***************************************************************************)
\* bits without its high-order zeros
Trim(bits) ==
    IF \A i \in 1..Len(bits) : bits[i] = 0 THEN <<>>
    ELSE SubSeq(bits, 1, CHOOSE i \in 1..Len(bits) :
                            bits[i] = 1 /\ \A j \in (i + 1)..Len(bits) : bits[j] = 0)

RECURSIVE FromNat(_)
FromNat(n) == IF n = 0 THEN <<>> ELSE <<n % 2>> \o FromNat(n \div 2)

ShiftLeft(bits, k) == IF bits = <<>> THEN <<>> ELSE [i \in 1..k |-> 0] \o bits

BitAt(bits, i) == IF i <= Len(bits) THEN bits[i] ELSE 0

Longer(a, b) == IF Len(a) > Len(b) THEN Len(a) ELSE Len(b)

\* the carry into bit i of a + b
Carry(a, b, i) ==
    IF \E j \in 1..(i - 1) : /\ BitAt(a, j) + BitAt(b, j) = 2
                             /\ \A k \in (j + 1)..(i - 1) : BitAt(a, k) + BitAt(b, k) >= 1
    THEN 1 ELSE 0

AddBits(a, b) ==
    Trim([i \in 1..(Longer(a, b) + 1) |-> (BitAt(a, i) + BitAt(b, i) + Carry(a, b, i)) % 2])

\* the borrow out of the bits below bit i of a - b
Borrow(a, b, i) ==
    IF \E j \in 1..(i - 1) : /\ BitAt(a, j) < BitAt(b, j)
                             /\ \A k \in (j + 1)..(i - 1) : BitAt(a, k) <= BitAt(b, k)
    THEN 1 ELSE 0

\* a - b for a >= b
SubBits(a, b) ==
    Trim([i \in 1..Len(a) |-> (BitAt(a, i) - BitAt(b, i) - Borrow(a, b, i)) % 2])

\* a >= b, both without high-order zeros
GeBits(a, b) ==
    \/ a = b
    \/ Len(a) > Len(b)
    \/ /\ Len(a) = Len(b)
       /\ \E i \in 1..Len(a) : a[i] > b[i] /\ \A j \in (i + 1)..Len(a) : a[j] = b[j]

\* 2^m modulo d, for m <= 60
Pow2Mod(m, d) == ((2 ^ (m \div 2) % d) * (2 ^ (m - m \div 2) % d)) % d

\* floor(n * 2^k / d) and the remainder of that division, for n, d < 2^20
DivShifted(n, k, d) ==
    [q |-> Trim([i \in 1..(k + 20) |->
                    IF i > k THEN ((n \div 2 ^ (i - 1 - k)) \div d) % 2
                    ELSE (2 * ((n * Pow2Mod(k - i, d)) % d)) \div d]),
     r |-> (n * Pow2Mod(k, d)) % d]

\* the record of the number bits * 2^exp, exactly
Canonical(bits, exp) ==
    IF \A i \in 1..Len(bits) : bits[i] = 0 THEN [sig |-> <<>>, exp |-> 0]
    ELSE LET low == CHOOSE i \in 1..Len(bits) : bits[i] = 1 /\ \A j \in 1..(i - 1) : bits[j] = 0
         IN  [sig |-> Trim(SubSeq(bits, low, Len(bits))), exp |-> exp + low - 1]

\* the binary64 nearest to raw * 2^exp (plus a fraction of the last bit if
\* sticky): 53 significant bits, ties to even
RoundDouble(raw, exp, sticky) ==
    LET bits == Trim(raw)
        k == Len(bits) - 53
    IN  IF k <= 0 THEN Canonical(bits, exp)
        ELSE LET kept == SubSeq(bits, k + 1, Len(bits))
                 below == sticky \/ \E i \in 1..(k - 1) : bits[i] = 1
                 up == bits[k] = 1 /\ (below \/ kept[1] = 1)
             IN  Canonical(IF up THEN AddBits(kept, <<1>>) ELSE kept, exp + k)

\* the number a JSON decimal literal with value n / d is parsed to
ParseDecimal(n, d) ==
    LET division == DivShifted(n, 60, d)
    IN  RoundDouble(division.q, -60, division.r # 0)

\* x * 100     (100 = 64 + 32 + 4)
Times100(x) ==
    RoundDouble(AddBits(ShiftLeft(x.sig, 6), AddBits(ShiftLeft(x.sig, 5), ShiftLeft(x.sig, 2))),
                x.exp, FALSE)

\* x - y for x >= y
Minus(x, y) ==
    LET e == IF x.exp < y.exp THEN x.exp ELSE y.exp
    IN  RoundDouble(SubBits(ShiftLeft(x.sig, x.exp - e), ShiftLeft(y.sig, y.exp - e)), e, FALSE)

\* the number with the integer value n
FromInteger(n) == Canonical(FromNat(n), 0)

\* the integer whose binary digits are bits
RECURSIVE BitsValue(_)
BitsValue(bits) == IF bits = <<>> THEN 0 ELSE bits[1] + 2 * BitsValue(Tail(bits))

\* a number as the state holds it: the significand in two halves of 27 bits,
\* sig = hi * 2^27 + lo
Stored(x) ==
    [lo |-> BitsValue(SubSeq(x.sig, 1, IF Len(x.sig) < 27 THEN Len(x.sig) ELSE 27)),
     hi |-> BitsValue(SubSeq(x.sig, 28, Len(x.sig))),
     exp |-> x.exp]

\* the number a stored number stands for
Unstored(v) ==
    Canonical([i \in 1..27 |-> BitAt(FromNat(v.lo), i)] \o FromNat(v.hi), v.exp)

\* the coordinates of the response JSON are decimals with one fractional digit,
\* written here by their numerator: 4 stands for the literal 0.4
Tenths == 0..10

\* JSON.parse on such a literal (geminiService.ts:83), evaluated once
JsonNumber == [n \in Tenths |-> ParseDecimal(n, 10)]

(***************************************************************************)
(* analyzeWeedImage (geminiService.ts)                                     *)
(***************************************************************************)
\* JSON.parse of a box_2d array
ParsedBox(box) == [k \in 1..Len(box) |-> JsonNumber[box[k]]]

\* bbox: d.box_2d || d.bbox   (the response schema has no bbox field)
WithBbox(d) ==
    [weedType |-> d.weedType, confidence |-> d.confidence,
     bbox |-> IF d.box_2d # NoBox THEN ParsedBox(d.box_2d) ELSE NoBox]

\* the first return of the catch block: a rate-limit signal
RateLimitFallback(datasetContext) ==
    [rejected |-> FALSE, cropContext |-> datasetContext, weedDensity |-> "Low",
     remediationAdvice |-> "rate limit", estimatedYieldLoss |-> 0,
     herbicideDosage |-> 0, detectionsDefined |-> TRUE, detections |-> <<>>]

\* (mutant) the catch block throws what it caught
FallbackRethrows(datasetContext) ==
    [rejected |-> TRUE, cropContext |-> datasetContext, weedDensity |-> "Low",
     remediationAdvice |-> "unstable", estimatedYieldLoss |-> 0,
     herbicideDosage |-> 0, detectionsDefined |-> TRUE, detections |-> <<>>]

\* the last return of the catch block: every other failure
Fallback(datasetContext) ==
    [rejected |-> FALSE, cropContext |-> datasetContext, weedDensity |-> "Low",
     remediationAdvice |-> "unstable", estimatedYieldLoss |-> 0,
     herbicideDosage |-> 0, detectionsDefined |-> TRUE, detections |-> <<>>]

\* error.message?.includes("429") || error.status === 429 ||
\* error.status === "RESOURCE_EXHAUSTED"
IsRateLimit(kind) == kind \in {"message429", "status429", "resourceExhausted"}

\* what the promise of analyzeWeedImage settles to (rejected is FALSE when it
\* resolves).  detectionsDefined is FALSE when the parsed JSON has no
\* detections field
analyzeWeedImage(outcome, datasetContext) ==
    CASE outcome.kind = "json" ->
           [rejected |-> FALSE, cropContext |-> outcome.cropContext, weedDensity |-> "Low",
            remediationAdvice |-> "model",
            estimatedYieldLoss |-> outcome.estimatedYieldLoss,
            herbicideDosage |-> outcome.herbicideDosage,
            detectionsDefined |-> TRUE,
            detections |-> [i \in 1..Len(outcome.detections) |->
                              WithBbox(outcome.detections[i])]]
      [] outcome.kind = "jsonNoDetections" ->
           [rejected |-> FALSE, cropContext |-> "Beet", weedDensity |-> "Low",
            remediationAdvice |-> "model", estimatedYieldLoss |-> 0,
            herbicideDosage |-> 0, detectionsDefined |-> FALSE, detections |-> <<>>]
      [] IsRateLimit(outcome.kind) -> RateLimitFallback(datasetContext)
      [] OTHER -> Fallback(datasetContext)

(***************************************************************************)
(* Reconciliation of one result (App.tsx:209-239)                          *)
(***************************************************************************)
\* the forEach of the updater passed to setDetectedWeedTypes: newSet and changed
\* after the detections from index i on
RECURSIVE AddTypes(_, _, _)
AddTypes(acc, detections, i) ==
    IF i > Len(detections) THEN acc
    ELSE AddTypes(IF detections[i].weedType \notin acc.newSet
                  THEN [newSet |-> acc.newSet \cup {detections[i].weedType}, changed |-> TRUE]
                  ELSE acc,
                  detections, i + 1)

\* (mutant) the updater returns a new Set whatever it added
ReturnsPrevNever(prev, detections) == FALSE

\* the updater returns prev itself, so React keeps the state and its object
ReturnsPrev(prev, detections) ==
    ~AddTypes([newSet |-> prev, changed |-> FALSE], detections, 1).changed

\* (mutant) the updater only looks at the first detection
RecordCategoriesFirst(prev, detections) ==
    IF detections = <<>> THEN prev ELSE prev \cup {detections[1].weedType}

\* (mutant) the updater keeps only the categories of the batch
RecordCategoriesReplaced(prev, detections) ==
    {detections[i].weedType : i \in 1..Len(detections)}

\* the value of detectedWeedTypes after the updater: changed ? newSet : prev
RecordCategories(prev, detections) ==
    IF ReturnsPrev(prev, detections) THEN prev
    ELSE AddTypes([newSet |-> prev, changed |-> FALSE], detections, 1).newSet

\* (mutant) x and y are taken from the wrong coordinates
ViewportPercentSwapped(bbox) ==
    [x |-> Stored(Times100(bbox[1])),
     y |-> Stored(Times100(bbox[2])),
     w |-> Stored(Times100(Minus(bbox[4], bbox[2]))),
     h |-> Stored(Times100(Minus(bbox[3], bbox[1])))]

\* const [ymin, xmin, ymax, xmax] = d.bbox and the four products
ViewportPercent(bbox) ==
    [x |-> Stored(Times100(bbox[2])),
     y |-> Stored(Times100(bbox[1])),
     w |-> Stored(Times100(Minus(bbox[4], bbox[2]))),
     h |-> Stored(Times100(Minus(bbox[3], bbox[1])))]

\* the boxes of the responses explored, parsed
ParsedBoxes == {ParsedBox(box) : box \in Boxes}

\* ViewportPercent on each of them, evaluated once
ViewportPercents == [bbox \in ParsedBoxes |-> ViewportPercent(bbox)]

\* id: Date.now() + i, i the index in result.detections counted from 0
RegionId(now, i) == now + i

\* one element of result.detections.map: null for a detection without 4 numbers
MapDetection(d, i, now) ==
    IF d.bbox = NoBox \/ Len(d.bbox) < 4 THEN <<>>
    ELSE <<[id |-> RegionId(now, i),
            x |-> ViewportPercents[d.bbox].x, y |-> ViewportPercents[d.bbox].y,
            w |-> ViewportPercents[d.bbox].w, h |-> ViewportPercents[d.bbox].h,
            label |-> d.weedType, conf |-> d.confidence]>>

\* the elements from index i (counted from 1) on, without the nulls
RECURSIVE MappedFrom(_, _, _)
MappedFrom(detections, i, now) ==
    IF i > Len(detections) THEN <<>>
    ELSE MapDetection(detections[i], i - 1, now) \o MappedFrom(detections, i + 1, now)

\* (mutant) only the first detection of the batch is mapped
mappedDetectionsFirst(detections, now) ==
    IF detections = <<>> THEN <<>> ELSE MapDetection(detections[1], 0, now)

\* result.detections.map(...).filter(Boolean)
mappedDetections(detections, now) == MappedFrom(detections, 1, now)

(***************************************************************************)
(* Device Registry: getDevices (App.tsx:44-69)                             *)
(***************************************************************************)
UpperChars == <<"A","B","C","D","E","F","G","H","I","J","K","L","M",
                "N","O","P","Q","R","S","T","U","V","W","X","Y","Z">>
LowerChars == <<"a","b","c","d","e","f","g","h","i","j","k","l","m",
                "n","o","p","q","r","s","t","u","v","w","x","y","z">>

\* String.prototype.toLowerCase on a sequence of characters
toLowerCase(label) ==
    [i \in 1..Len(label) |->
        IF \E k \in 1..Len(UpperChars) : UpperChars[k] = label[i]
        THEN LowerChars[CHOOSE k \in 1..Len(UpperChars) : UpperChars[k] = label[i]]
        ELSE label[i]]

\* String.prototype.includes
includes(text, word) ==
    \E i \in 0..(Len(text) - Len(word)) :
        \A j \in 1..Len(word) : text[i + j] = word[j]

KwBack == <<"b","a","c","k">>
KwVirtual == <<"v","i","r","t","u","a","l">>
KwPhone == <<"p","h","o","n","e">>

\* the devices the platform may report (id, label)
DevBack == [deviceId |-> "cam-back", label |-> <<"B","a","c","k"," ","C","a","m">>]
DevVirtual == [deviceId |-> "cam-virt", label |-> <<"O","B","S"," ","V","I","R","T","U","A","L">>]
DevPhone == [deviceId |-> "cam-phone", label |-> <<"i","P","h","o","n","e">>]
DevPlain == [deviceId |-> "cam-web", label |-> <<"W","e","b","c","a","m">>]

AllDevices == {DevBack, DevVirtual, DevPhone, DevPlain}

\* enumerations without repetition of at most n devices of S
DeviceLists(S, n) ==
    {l \in SeqsUpTo(S, n) : \A i, j \in 1..Len(l) : i # j => l[i] # l[j]}

\* the enumerations explored by the registry specification
RegistryLists == DeviceLists(AllDevices, MaxDevices)

\* the enumerations explored together with the capture session
SessionLists == {<<DevPlain, DevBack>>}

DeviceIds(D) == {D[i].deviceId : i \in 1..Len(D)}

\* Array.prototype.find: the index of the first element satisfying test, 0 if none
FindIndex(D, test(_)) ==
    IF \E i \in 1..Len(D) : test(D[i])
    THEN CHOOSE i \in 1..Len(D) : test(D[i]) /\ \A j \in 1..(i - 1) : ~test(D[j])
    ELSE 0

\* (mutant) only the first keyword is looked for
IsMobileCamBackOnly(d) == includes(toLowerCase(d.label), KwBack)

\* the predicate of videoInputs.find at App.tsx:59-63
IsMobileCam(d) ==
    \/ includes(toLowerCase(d.label), KwBack)
    \/ includes(toLowerCase(d.label), KwVirtual)
    \/ includes(toLowerCase(d.label), KwPhone)

\* the devices on which the predicate holds (labels never change)
MobileCams == {d \in AllDevices : IsMobileCam(d)}

\* the id chosen when no device is selected and the list is not empty
InitialSelection(D) ==
    LET mobileCam == FindIndex(D, LAMBDA d : d \in MobileCams)
    IN  IF mobileCam # 0 THEN D[mobileCam].deviceId ELSE D[1].deviceId

\* (mutant) the fallback takes the last device of the list
FallbackSelectionLast(D) ==
    IF D # <<>> THEN D[Len(D)].deviceId ELSE NoDevice

\* videoInputs[0]?.deviceId || ''
FallbackSelection(D) ==
    IF D # <<>> THEN D[1].deviceId ELSE NoDevice

\* selectedDeviceId after a run of getDevices that captured `sel`, enumerated D
\* and found the state `current`
SelectionAfterRefresh(sel, D, current) ==
    IF sel # NoDevice /\ sel \notin DeviceIds(D) THEN FallbackSelection(D)
    ELSE IF sel = NoDevice /\ Len(D) > 0 THEN InitialSelection(D)
    ELSE current

(***************************************************************************)
(* State                                                                   *)
(***************************************************************************)
VARIABLES
    stream,              \* useState stream: NoStream or the id of a MediaStream
    videoDevices,        \* useState videoDevices
    selectedDeviceId,    \* useState selectedDeviceId
    liveDetections,      \* useState liveDetections
    isLiveInferencing,   \* useState isLiveInferencing
    detectedWeedTypes,   \* useState detectedWeedTypes
    disabledWeedTypes,   \* useState disabledWeedTypes
    streamCount,         \* streams handed out so far; their ids are 1..streamCount
    stopped,             \* streams whose tracks have all been stopped
    userStopped,         \* streams ended by the stop branch of toggleCamera
    pendingStart,        \* getUserMedia calls of toggleCamera awaiting the platform
    pendingSwitch,       \* getUserMedia calls of handleDeviceChange awaiting the platform
    startRequests,       \* bag of the deviceId constraints of the pending getUserMedia
                         \* calls of toggleCamera (NoDevice: deviceId undefined)
    switchRequests,      \* bag of the deviceId constraints of the pending getUserMedia
                         \* calls of handleDeviceChange
    streamDevice,        \* the device the stream of the stream state was opened on,
                         \* NoDevice while it is null
    interval,            \* the stream whose effect registered the live interval, or NoStream
    mountedEffect,       \* the stream of the effect run whose isMounted is still true
    closureInferencing,  \* isLiveInferencing as captured by captureFrameAndAnalyze
    inflight,            \* per effect run (stream id): calls of analyzeWeedImage not returned
    runs,                \* bag of getDevices runs awaiting the platform, by captured selection
    listeners,           \* bag of subscribed devicechange handlers, by the selection
                         \* their getDevices captured
    permissionHeld,      \* some stream obtained by the permission request of a
                         \* getDevices run has tracks that were not stopped
    alertOpen,           \* an alert() dialog is open and blocks the thread
    selectedDataset,     \* useState selectedDataset
    uploadedImage,       \* useState uploadedImage: TRUE for a data URL, FALSE for null
    isAnalyzing,         \* useState isAnalyzing
    analysisResult,      \* useState analysisResult: <<>> for null, else <<result>>
    analysisPending      \* the call of analyzeWeedImage awaited by runAnalysis: <<>> or
                         \* <<the dataset it was called with>>

vars ==
    <<stream, videoDevices, selectedDeviceId, liveDetections, isLiveInferencing,
      detectedWeedTypes, disabledWeedTypes, streamCount, stopped, userStopped,
      pendingStart, pendingSwitch, startRequests, switchRequests, streamDevice,
      interval, mountedEffect, closureInferencing, inflight, runs, listeners, permissionHeld, alertOpen, selectedDataset, uploadedImage, isAnalyzing,
      analysisResult, analysisPending>>

uploadVars == <<selectedDataset, uploadedImage, isAnalyzing, analysisResult, analysisPending>>

registryVars == <<videoDevices, selectedDeviceId, runs, listeners, permissionHeld>>

captureVars == <<stream, streamCount, stopped, userStopped, pendingStart, pendingSwitch,
                 startRequests, switchRequests, streamDevice, interval, mountedEffect,
                 closureInferencing>>

cycleVars == <<liveDetections, isLiveInferencing, detectedWeedTypes, inflight>>

StreamIds == 1..MaxStreams

\* session streams acquired and not released
LiveStreams == (1..streamCount) \ stopped

RECURSIVE SumUpTo(_, _)
SumUpTo(f, n) == IF n = 0 THEN 0 ELSE f[n] + SumUpTo(f, n - 1)

\* calls of analyzeWeedImage that have not returned
TotalInflight == SumUpTo(inflight, MaxStreams)

\* the state after the first render and its effects: getDevices() has been called
Init ==
    /\ stream = NoStream
    /\ videoDevices = <<>>
    /\ selectedDeviceId = NoDevice
    /\ liveDetections = <<>>
    /\ isLiveInferencing = FALSE
    /\ detectedWeedTypes = {}
    /\ disabledWeedTypes = {}
    /\ streamCount = 0
    /\ stopped = {}
    /\ userStopped = {}
    /\ pendingStart = 0
    /\ pendingSwitch = 0
    /\ startRequests = EmptyBag
    /\ switchRequests = EmptyBag
    /\ streamDevice = NoDevice
    /\ interval = NoStream
    /\ mountedEffect = NoStream
    /\ closureInferencing = FALSE
    /\ inflight = [s \in StreamIds |-> 0]
    /\ runs = SetToBag({NoDevice})
    /\ listeners = SetToBag({NoDevice})
    /\ permissionHeld = FALSE
    /\ alertOpen = FALSE
    /\ selectedDataset = "Cotton"
    /\ uploadedImage = FALSE
    /\ isAnalyzing = FALSE
    /\ analysisResult = <<>>
    /\ analysisPending = <<>>

(***************************************************************************)
(* Effects run by React when a dependency changes                          *)
(***************************************************************************)
\* (mutant) the cleanup does not clear the interval of the previous run
EffectIntervalKept(newStream) ==
    IF newStream = NoStream THEN interval ELSE newStream

\* inference-loop effect, deps [stream]: the cleanup of the previous run clears
\* its interval, the new run registers one iff the stream is not null
EffectInterval(newStream) == newStream

\* the cleanup sets isMounted of the previous run to false; the new run has its own
EffectMounted(newStream) == newStream

\* (mutant) the result is applied without looking at isMounted
IsMountedAlways(e) == TRUE

\* let isMounted of the effect run that issued a dispatch
IsMounted(e) == e = mountedEffect

\* setStream(s) with the re-render and the effects it causes.  The effect only
\* re-runs when the value changes, and the captureFrameAndAnalyze it creates
\* closes over the isLiveInferencing of that render.
SetStream(s) ==
    /\ stream' = s
    /\ interval' = IF s # stream THEN EffectInterval(s) ELSE interval
    /\ mountedEffect' = IF s # stream THEN EffectMounted(s) ELSE mountedEffect
    /\ closureInferencing' = IF s # stream THEN isLiveInferencing ELSE closureInferencing

\* devicechange effect, deps [getDevices]: getDevices is re-created when
\* selectedDeviceId changes and the effect then calls it
RunsAfterSelection(bag, old, new) ==
    IF new # old THEN bag (+) SetToBag({new}) ELSE bag

\* (mutant) the cleanup does not remove the handler of the previous run
EffectListenersKept(bag, old, new) ==
    IF new # old THEN bag (+) SetToBag({new}) ELSE bag

\* the same effect: its cleanup removes the handler of the previous run, and the
\* new run adds a handler that calls the new getDevices
EffectListeners(bag, old, new) ==
    IF new # old THEN (bag (-) SetToBag({old})) (+) SetToBag({new}) ELSE bag

(***************************************************************************)
(* Capture Session: toggleCamera, handleDeviceChange (App.tsx:118-165)     *)
(***************************************************************************)
\* (mutant) the stop branch also resets disabledWeedTypes
StopDisabledCleared(hidden) == {}

\* what the stop branch does to disabledWeedTypes: nothing
StopDisabled(hidden) == hidden

\* (mutant) the stop branch leaves detectedWeedTypes alone
StopKnownKept(known) == known

\* setDetectedWeedTypes(new Set()) of the stop branch
StopKnown(known) == {}

\* the devices the platform opens when no deviceId is asked for
DefaultDevices == {DevPlain.deviceId, DevBack.deviceId}

\* the device getUserMedia may open under the constraint deviceId:
\* { exact: deviceId }, or deviceId: undefined when the selection is empty
OpenedOn(deviceId) == IF deviceId = NoDevice THEN DefaultDevices ELSE {deviceId}

\* toggleCamera with a stream: the stop branch
ToggleCameraStop ==
    /\ ~alertOpen
    /\ stream # NoStream
    /\ stopped' = stopped \cup {stream}
    /\ userStopped' = userStopped \cup {stream}
    /\ SetStream(NoStream)
    /\ streamDevice' = NoDevice
    /\ liveDetections' = <<>>
    /\ detectedWeedTypes' = StopKnown(detectedWeedTypes)
    /\ disabledWeedTypes' = StopDisabled(disabledWeedTypes)
    /\ UNCHANGED <<registryVars, streamCount, pendingStart, pendingSwitch,
                   startRequests, switchRequests, isLiveInferencing, inflight>>
    /\ UNCHANGED <<alertOpen, uploadVars>>

\* toggleCamera without a stream, up to the await of getUserMedia
ToggleCameraStart ==
    /\ ~alertOpen
    /\ stream = NoStream
    /\ pendingStart + pendingSwitch < MaxPending
    /\ pendingStart' = pendingStart + 1
    /\ startRequests' = startRequests (+) SetToBag({selectedDeviceId})
    /\ UNCHANGED <<registryVars, cycleVars, disabledWeedTypes, stream, streamCount,
                   stopped, userStopped, pendingSwitch, switchRequests, streamDevice,
                   interval, mountedEffect, closureInferencing>>
    /\ UNCHANGED <<alertOpen, uploadVars>>

\* getUserMedia of toggleCamera resolves: setStream(newStream)
StartAcquired ==
    /\ ~alertOpen
    /\ pendingStart > 0
    /\ streamCount < MaxStreams
    /\ pendingStart' = pendingStart - 1
    /\ streamCount' = streamCount + 1
    /\ SetStream(streamCount + 1)
    /\ \E deviceId \in BagToSet(startRequests) :
          /\ startRequests' = startRequests (-) SetToBag({deviceId})
          /\ streamDevice' \in OpenedOn(deviceId)
    /\ UNCHANGED <<registryVars, cycleVars, disabledWeedTypes, stopped, userStopped,
                   pendingSwitch, switchRequests>>
    /\ UNCHANGED <<alertOpen, uploadVars>>

\* getUserMedia of toggleCamera rejects: console.error and alert
StartFailed ==
    /\ ~alertOpen
    /\ pendingStart > 0
    /\ pendingStart' = pendingStart - 1
    /\ \E deviceId \in BagToSet(startRequests) :
          startRequests' = startRequests (-) SetToBag({deviceId})
    /\ UNCHANGED <<registryVars, cycleVars, disabledWeedTypes, stream, streamCount,
                   stopped, userStopped, pendingSwitch, switchRequests, streamDevice,
                   interval, mountedEffect, closureInferencing>>
    /\ alertOpen' = TRUE
    /\ UNCHANGED uploadVars

\* handleDeviceChange(newDeviceId), up to the await of getUserMedia.  The select
\* offers the ids of videoDevices and fires onChange for another id only.
HandleDeviceChange(newDeviceId) ==
    /\ ~alertOpen
    /\ newDeviceId \in DeviceIds(videoDevices)
    /\ newDeviceId # selectedDeviceId
    /\ BagCardinality(runs) < MaxRuns
    /\ selectedDeviceId' = newDeviceId
    /\ runs' = RunsAfterSelection(runs, selectedDeviceId, newDeviceId)
    /\ listeners' = EffectListeners(listeners, selectedDeviceId, newDeviceId)
    /\ IF stream # NoStream
       THEN /\ pendingStart + pendingSwitch < MaxPending
            /\ stopped' = stopped \cup {stream}
            /\ pendingSwitch' = pendingSwitch + 1
            /\ switchRequests' = switchRequests (+) SetToBag({newDeviceId})
       ELSE UNCHANGED <<stopped, pendingSwitch, switchRequests>>
    /\ UNCHANGED <<videoDevices, permissionHeld, cycleVars, disabledWeedTypes, stream,
                   streamCount, userStopped, pendingStart, startRequests, streamDevice,
                   interval, mountedEffect, closureInferencing>>
    /\ UNCHANGED <<alertOpen, uploadVars>>

\* getUserMedia of handleDeviceChange resolves: setStream(newStream)
SwitchAcquired ==
    /\ ~alertOpen
    /\ pendingSwitch > 0
    /\ streamCount < MaxStreams
    /\ pendingSwitch' = pendingSwitch - 1
    /\ streamCount' = streamCount + 1
    /\ SetStream(streamCount + 1)
    /\ \E deviceId \in BagToSet(switchRequests) :
          /\ switchRequests' = switchRequests (-) SetToBag({deviceId})
          /\ streamDevice' \in OpenedOn(deviceId)
    /\ UNCHANGED <<registryVars, cycleVars, disabledWeedTypes, stopped, userStopped,
                   pendingStart, startRequests>>
    /\ UNCHANGED <<alertOpen, uploadVars>>

\* (mutant) the catch block leaves the stream state alone
SwitchFailedKeeps(old) == old

\* the stream state after a failed acquisition in handleDeviceChange: setStream(null)
SwitchFailedStream(old) == NoStream

\* getUserMedia of handleDeviceChange rejects: console.error and setStream(null)
SwitchFailed ==
    /\ ~alertOpen
    /\ pendingSwitch > 0
    /\ pendingSwitch' = pendingSwitch - 1
    /\ SetStream(SwitchFailedStream(stream))
    /\ streamDevice' = NoDevice
    /\ \E deviceId \in BagToSet(switchRequests) :
          switchRequests' = switchRequests (-) SetToBag({deviceId})
    /\ UNCHANGED <<registryVars, cycleVars, disabledWeedTypes, streamCount, stopped,
                   userStopped, pendingStart, startRequests>>
    /\ UNCHANGED <<alertOpen, uploadVars>>

\* the user dismisses the dialog of alert(); until then alert() has not returned
\* and no handler, timer callback or promise continuation runs
AlertDismissed ==
    /\ alertOpen
    /\ alertOpen' = FALSE
    /\ UNCHANGED <<registryVars, captureVars, cycleVars, disabledWeedTypes, uploadVars>>

(***************************************************************************)
(* Frame Sampler and Inference Dispatcher (App.tsx:175-257)                *)
(***************************************************************************)
\* the in-flight test of captureFrameAndAnalyze reads the isLiveInferencing its
\* closure captured when the effect ran, not the current state
InFlightGuard == closureInferencing

\* first line of captureFrameAndAnalyze: the tick returns without doing anything.
\* The closure's stream is the one the interval was registered for, never null.
TickSkipped(videoPresent) ==
    /\ ~alertOpen
    /\ interval # NoStream
    /\ ~videoPresent \/ InFlightGuard
    /\ UNCHANGED vars

\* (mutant) the early return leaves the flag as line 182 set it
NotReadyFlagKept(flag) == TRUE

\* isLiveInferencing after the early return: setIsLiveInferencing(true) at line
\* 182, setIsLiveInferencing(false) at line 188, and the finally block
NotReadyFlag(flag) == FALSE

\* video.readyState !== 4: the flag is set and cleared again
TickNotReady ==
    /\ ~alertOpen
    /\ interval # NoStream
    /\ ~InFlightGuard
    /\ isLiveInferencing' = NotReadyFlag(isLiveInferencing)
    /\ UNCHANGED <<registryVars, captureVars, liveDetections, detectedWeedTypes,
                   disabledWeedTypes, inflight>>
    /\ UNCHANGED <<alertOpen, uploadVars>>

\* canvas.getContext('2d') is null: nothing is sent, finally clears the flag
TickNoContext ==
    /\ ~alertOpen
    /\ interval # NoStream
    /\ ~InFlightGuard
    /\ isLiveInferencing' = IF IsMounted(interval) THEN FALSE ELSE TRUE
    /\ UNCHANGED <<registryVars, captureVars, liveDetections, detectedWeedTypes,
                   disabledWeedTypes, inflight>>
    /\ UNCHANGED <<alertOpen, uploadVars>>

\* the frame is captured and analyzeWeedImage(data, 'Beet') is called
TickDispatch ==
    /\ ~alertOpen
    /\ interval # NoStream
    /\ ~InFlightGuard
    /\ TotalInflight < MaxInflight
    /\ isLiveInferencing' = TRUE
    /\ inflight' = [inflight EXCEPT ![interval] = @ + 1]
    /\ UNCHANGED <<registryVars, captureVars, liveDetections, detectedWeedTypes,
                   disabledWeedTypes>>
    /\ UNCHANGED <<alertOpen, uploadVars>>

\* the guard of the reconciliation: isMounted && result.detections
\* (a rejection would go to the catch block, which only logs)
Applies(e, result) == ~result.rejected /\ IsMounted(e) /\ result.detectionsDefined

\* analyzeWeedImage returns to the cycle issued by effect run e; now is what
\* Date.now() returns in the reconciliation
DispatchComplete(e, outcome, now) ==
    /\ ~alertOpen
    /\ inflight[e] > 0
    /\ inflight' = [inflight EXCEPT ![e] = @ - 1]
    /\ LET result == analyzeWeedImage(outcome, "Beet")
       IN  /\ detectedWeedTypes' =
                IF Applies(e, result)
                THEN RecordCategories(detectedWeedTypes, result.detections)
                ELSE detectedWeedTypes
           /\ liveDetections' =
                IF Applies(e, result)
                THEN mappedDetections(result.detections, now)
                ELSE liveDetections
    /\ isLiveInferencing' = IF IsMounted(e) THEN FALSE ELSE isLiveInferencing
    /\ UNCHANGED <<registryVars, captureVars, disabledWeedTypes>>
    /\ UNCHANGED <<alertOpen, uploadVars>>

(***************************************************************************)
(* Filter menu (App.tsx:546-554); it is rendered while stream is not null  *)
(***************************************************************************)
\* (mutant) a click only ever hides
ToggledAdds(hidden, type) == hidden \cup {type}

\* next = new Set(disabledWeedTypes) with type deleted if present, added if not
Toggled(hidden, type) ==
    IF type \in hidden THEN hidden \ {type} ELSE hidden \cup {type}

ToggleVisibility(type) ==
    /\ ~alertOpen
    /\ stream # NoStream
    /\ type \in detectedWeedTypes
    /\ disabledWeedTypes' = Toggled(disabledWeedTypes, type)
    /\ UNCHANGED <<registryVars, captureVars, cycleVars>>
    /\ UNCHANGED <<alertOpen, uploadVars>>

\* (mutant) the overlay shows every region
BoxShownAlways(box, hidden) == TRUE

\* the predicate of liveDetections.filter (App.tsx:596)
BoxShown(box, hidden) == box.label \notin hidden

\* the bounding boxes of the HUD layer (App.tsx:581-597), as every render
\* computes them from the state; the layer is rendered while stream is not null
renderLive ==
    IF stream # NoStream
    THEN SelectSeq(liveDetections, LAMBDA box : BoxShown(box, disabledWeedTypes))
    ELSE <<>>

(***************************************************************************)
(* Upload view: handleFileUpload, runAnalysis (App.tsx:88-115, 382-448)    *)
(***************************************************************************)
Datasets == {"Cotton", "Beet"}

\* reader.onloadend of handleFileUpload; the file input is rendered while no
\* image is loaded
FileLoaded ==
    /\ ~alertOpen
    /\ ~uploadedImage
    /\ uploadedImage' = TRUE
    /\ analysisResult' = <<>>
    /\ UNCHANGED <<registryVars, captureVars, cycleVars, disabledWeedTypes, alertOpen,
                   selectedDataset, isAnalyzing, analysisPending>>

\* the remove button of the loaded image (App.tsx:437)
RemoveImage ==
    /\ ~alertOpen
    /\ uploadedImage
    /\ uploadedImage' = FALSE
    /\ analysisResult' = <<>>
    /\ UNCHANGED <<registryVars, captureVars, cycleVars, disabledWeedTypes, alertOpen,
                   selectedDataset, isAnalyzing, analysisPending>>

\* the two dataset buttons (App.tsx:382, 388)
SelectDataset(dataset) ==
    /\ ~alertOpen
    /\ dataset # selectedDataset
    /\ selectedDataset' = dataset
    /\ UNCHANGED <<registryVars, captureVars, cycleVars, disabledWeedTypes, alertOpen,
                   uploadedImage, isAnalyzing, analysisResult, analysisPending>>

\* runAnalysis up to the await; its button is disabled without an image and
\* while isAnalyzing
RunAnalysis ==
    /\ ~alertOpen
    /\ uploadedImage
    /\ ~isAnalyzing
    /\ isAnalyzing' = TRUE
    /\ analysisPending' = <<selectedDataset>>
    /\ UNCHANGED <<registryVars, captureVars, cycleVars, disabledWeedTypes, alertOpen,
                   selectedDataset, uploadedImage, analysisResult>>

\* the promise awaited by runAnalysis settles: setAnalysisResult(result), or the
\* catch block with its alert if it rejected; finally setIsAnalyzing(false)
AnalysisReturns(outcome) ==
    /\ ~alertOpen
    /\ analysisPending # <<>>
    /\ LET result == analyzeWeedImage(outcome, analysisPending[1])
       IN  /\ analysisResult' = IF result.rejected THEN analysisResult ELSE <<result>>
           /\ alertOpen' = result.rejected
    /\ isAnalyzing' = FALSE
    /\ analysisPending' = <<>>
    /\ UNCHANGED <<registryVars, captureVars, cycleVars, disabledWeedTypes,
                   selectedDataset, uploadedImage>>

(***************************************************************************)
(* Device Registry actions                                                 *)
(***************************************************************************)
\* getDevices() called by the refresh button (App.tsx:656)
GetDevicesCall ==
    /\ ~alertOpen
    /\ BagCardinality(runs) < MaxRuns
    /\ runs' = runs (+) SetToBag({selectedDeviceId})
    /\ UNCHANGED <<videoDevices, selectedDeviceId, listeners, permissionHeld, captureVars,
                   cycleVars, disabledWeedTypes>>
    /\ UNCHANGED <<alertOpen, uploadVars>>

\* the platform signals devicechange: every subscribed handler calls the
\* getDevices of its closure
DeviceChanged ==
    /\ ~alertOpen
    /\ BagCardinality(runs) + BagCardinality(listeners) <= MaxRuns
    /\ runs' = runs (+) listeners
    /\ UNCHANGED <<videoDevices, selectedDeviceId, listeners, permissionHeld, captureVars,
                   cycleVars, disabledWeedTypes>>
    /\ UNCHANGED <<alertOpen, uploadVars>>

\* (mutant) the catch block empties the list
RefreshFailedListCleared(old) == <<>>

\* videoDevices after a run that ended in its catch block: both awaits come
\* before the first setter, so no setter has run
RefreshFailedList(old) == old

\* the stream the permission request resolved to is dropped with its tracks
\* live: the value of the await at line 47 is not kept
PermissionHeld(held, granted) == held \/ granted

\* a run ends in its catch block: console.error, and the promise of getDevices
\* resolves.  Either the permission request was denied, or it was granted and
\* the enumeration failed
GetDevicesFailed(sel) ==
    /\ ~alertOpen
    /\ BagIn(sel, runs)
    /\ runs' = runs (-) SetToBag({sel})
    /\ videoDevices' = RefreshFailedList(videoDevices)
    /\ \E granted \in BOOLEAN : permissionHeld' = PermissionHeld(permissionHeld, granted)
    /\ UNCHANGED <<selectedDeviceId, listeners, captureVars, cycleVars, disabledWeedTypes>>
    /\ UNCHANGED <<alertOpen, uploadVars>>

\* a run that captured `sel` gets the enumeration D
GetDevicesResolved(sel, D) ==
    /\ ~alertOpen
    /\ BagIn(sel, runs)
    /\ videoDevices' = D
    /\ selectedDeviceId' = SelectionAfterRefresh(sel, D, selectedDeviceId)
    /\ runs' = RunsAfterSelection(runs (-) SetToBag({sel}), selectedDeviceId,
                                  selectedDeviceId')
    /\ listeners' = EffectListeners(listeners, selectedDeviceId, selectedDeviceId')
    /\ permissionHeld' = PermissionHeld(permissionHeld, TRUE)
    /\ UNCHANGED <<captureVars, cycleVars, disabledWeedTypes>>
    /\ UNCHANGED <<alertOpen, uploadVars>>

(***************************************************************************)
(* Specifications                                                          *)
(***************************************************************************)
Selections == {NoDevice} \cup {d.deviceId : d \in AllDevices}

\* no getDevices run awaits the platform
RegistryIdle == runs = EmptyBag

\* The whole pipeline.  The registry does not read the session, and the session
\* reads of the registry only the ids offered by the select, so here the platform
\* answers a getDevices run before the next user or timer event and reports the
\* devices of SessionLists; the interleavings of getDevices runs with each other
\* and with the select are those of SpecRegistry.
RefreshFails == ~RegistryIdle /\ \E sel \in Selections : GetDevicesFailed(sel)

RefreshResolves ==
    ~RegistryIdle /\ \E sel \in Selections, D \in SessionLists : GetDevicesResolved(sel, D)

Refresh == RegistryIdle /\ GetDevicesCall

DeviceChange == RegistryIdle /\ DeviceChanged

Stop == RegistryIdle /\ ToggleCameraStop

Start == RegistryIdle /\ ToggleCameraStart

StartResolves == RegistryIdle /\ StartAcquired

StartRejects == RegistryIdle /\ StartFailed

SwitchDevice == RegistryIdle /\ \E id \in Selections : HandleDeviceChange(id)

SwitchResolves == RegistryIdle /\ SwitchAcquired

SwitchRejects == RegistryIdle /\ SwitchFailed

TickSkip == RegistryIdle /\ \E videoPresent \in BOOLEAN : TickSkipped(videoPresent)

TickVideoNotReady == RegistryIdle /\ TickNotReady

TickCanvasFails == RegistryIdle /\ TickNoContext

TickSends == RegistryIdle /\ TickDispatch

\* Date.now() in the reconciliations explored together with the capture session
SessionTimes == {0}

AnalyzerReturns ==
    /\ RegistryIdle
    /\ \E e \in StreamIds, outcome \in ApiOutcomes, now \in SessionTimes :
          DispatchComplete(e, outcome, now)

FilterClick == RegistryIdle /\ \E type \in Categories : ToggleVisibility(type)

DismissAlert == RegistryIdle /\ AlertDismissed

Next ==
    \/ RefreshFails
    \/ RefreshResolves
    \/ Refresh
    \/ DeviceChange
    \/ Stop
    \/ Start
    \/ StartResolves
    \/ StartRejects
    \/ SwitchDevice
    \/ SwitchResolves
    \/ SwitchRejects
    \/ TickSkip
    \/ TickVideoNotReady
    \/ TickCanvasFails
    \/ TickSends
    \/ AnalyzerReturns
    \/ FilterClick
    \/ DismissAlert

Spec == Init /\ [][Next]_vars

\* the device registry while no session is started, over every enumeration
NextRegistry ==
    \/ \E id \in Selections : HandleDeviceChange(id)
    \/ GetDevicesCall
    \/ DeviceChanged
    \/ \E sel \in Selections : GetDevicesFailed(sel)
    \/ \E sel \in Selections, D \in RegistryLists : GetDevicesResolved(sel, D)

SpecRegistry == Init /\ [][NextRegistry]_vars

\* the upload view: one image, the two datasets, every outcome of the request
UploadFile == FileLoaded

UploadRemove == RemoveImage

UploadDataset == \E dataset \in Datasets : SelectDataset(dataset)

UploadRun == RunAnalysis

UploadReturns == \E outcome \in ApiOutcomes : AnalysisReturns(outcome)

NextUpload ==
    \/ UploadFile
    \/ UploadRemove
    \/ UploadDataset
    \/ UploadRun
    \/ UploadReturns

SpecUpload == Init /\ [][NextUpload]_vars

\* in the cycles of one session every category comes with a box of its own, so
\* that a region tells which detection it was made from
CycleBox == [type \in Categories |-> IF type = "Fat Hen" THEN FullBox ELSE SlimBox]

\* the detections the model may return in these cycles: one with a box for each
\* category, and one without a box
CycleDetections ==
    {ApiDetection(type, CycleBox[type]) : type \in Categories}
        \cup {ApiDetection("Redshank", NoBox)}

CycleBatches == SeqsUpTo(CycleDetections, MaxBatch)

CycleOutcomes ==
    [kind : {"json"}, cropContext : {"Beet"}, estimatedYieldLoss : {12},
     herbicideDosage : {3}, detections : CycleBatches]
      \cup [kind : {"networkError"}]

\* Date.now() in successive reconciliations, in milliseconds from the first
CycleTimes == 0..MaxTime

\* a session has been started on the first stream: the first getDevices run
\* enumerated the devices, and so did the run the selection caused
InitCycle ==
    /\ stream = 1
    /\ videoDevices = <<DevPlain, DevBack>>
    /\ selectedDeviceId = DevBack.deviceId
    /\ liveDetections = <<>>
    /\ isLiveInferencing = FALSE
    /\ detectedWeedTypes = {}
    /\ disabledWeedTypes = {}
    /\ streamCount = 1
    /\ stopped = {}
    /\ userStopped = {}
    /\ pendingStart = 0
    /\ pendingSwitch = 0
    /\ startRequests = EmptyBag
    /\ switchRequests = EmptyBag
    /\ streamDevice = DevBack.deviceId
    /\ interval = 1
    /\ mountedEffect = 1
    /\ closureInferencing = FALSE
    /\ inflight = [s \in StreamIds |-> 0]
    /\ runs = EmptyBag
    /\ listeners = SetToBag({DevBack.deviceId})
    /\ permissionHeld = TRUE
    /\ alertOpen = FALSE
    /\ selectedDataset = "Cotton"
    /\ uploadedImage = FALSE
    /\ isAnalyzing = FALSE
    /\ analysisResult = <<>>
    /\ analysisPending = <<>>

CycleTick == TickDispatch

CycleReturns ==
    \E e \in StreamIds, outcome \in CycleOutcomes, now \in CycleTimes :
        DispatchComplete(e, outcome, now)

CycleFilter == \E type \in Categories : ToggleVisibility(type)

NextCycle ==
    \/ CycleTick
    \/ CycleReturns
    \/ CycleFilter

SpecCycle == InitCycle /\ [][NextCycle]_vars

(***************************************************************************)
(* Claims                                                                  *)
(***************************************************************************)

\* C1: at most one analyzer dispatch is outstanding at any time; a tick that
\* fires while an earlier call of analyzeWeedImage has not returned makes no call.
C1_AtMostOneDispatchOutstanding == TotalInflight <= 1

\* C2: once the user has stopped a session, no call of analyzeWeedImage is
\* started for that session any more.
C2_NoDispatchAfterStop ==
    [][\A s \in userStopped : inflight'[s] <= inflight[s]]_vars

\* a session was stopped by the user while one of its dispatches was outstanding
\* and the interval of a later session is running
C2_Witness ==
    \E s \in userStopped : inflight[s] > 0 /\ interval # NoStream /\ interval # s

C4_FailureKeepsRegions ==
    [][\A e \in StreamIds, kind \in FailureKinds :
          DispatchComplete(e, [kind |-> kind], 0) => liveDetections' = liveDetections]_vars

\* C5: at most one session stream is acquired and not released at any time.
C5_AtMostOneStreamHeld == Cardinality(LiveStreams) <= 1

\* C6: a failed acquisition of handleDeviceChange leaves the session stopped:
\* the stream state is null, not the released stream, and no interval runs.
C6_FailedSwitchStopsSession ==
    [][SwitchFailed => (stream' = NoStream /\ interval' = NoStream)]_vars

\* the session was ended by a failed switch, not by the user
C6_Witness ==
    /\ stream = NoStream
    /\ userStopped = {}
    /\ stopped # {}
    /\ pendingSwitch = 0

\* C7: stop releases the stream and clears the session-scoped state: right
\* after it the stream is null, its tracks are stopped, liveDetections and
\* detectedWeedTypes are empty.
C7_StopClearsSession ==
    [][ToggleCameraStop =>
          /\ stream' = NoStream
          /\ stream \in stopped'
          /\ liveDetections' = <<>>
          /\ detectedWeedTypes' = {}]_vars

\* the user stopped a session in which categories had been recorded (one of
\* them is still hidden), and nothing of it is left
C7_Witness ==
    /\ stream = NoStream
    /\ userStopped # {}
    /\ LiveStreams = {}
    /\ disabledWeedTypes # {}
    /\ detectedWeedTypes = {}
    /\ liveDetections = <<>>

BackDevices == {DevBack}
VirtualDevices == {DevVirtual}
PhoneDevices == {DevPhone}

\* the first device of D that is in S, D[1] if none is (D not empty)
FirstOf(D, S) ==
    IF \E i \in 1..Len(D) : D[i] \in S
    THEN D[CHOOSE i \in 1..Len(D) : D[i] \in S /\ \A j \in 1..(i - 1) : D[j] \notin S]
    ELSE D[1]

\* the selection by keyword priority: back, then virtual, then phone, then first
PrioritySelection(D) ==
    IF \E i \in 1..Len(D) : D[i] \in BackDevices THEN FirstOf(D, BackDevices)
    ELSE IF \E i \in 1..Len(D) : D[i] \in VirtualDevices THEN FirstOf(D, VirtualDevices)
    ELSE FirstOf(D, PhoneDevices)

\* C10 (as claimed): with no device selected and a list that is not empty, the
\* selection is the first "back" device, else the first "virtual", else the
\* first "phone", else the first device.
C10_KeywordPriority ==
    [][(GetDevicesResolved(NoDevice, videoDevices') /\ Len(videoDevices') > 0)
          => selectedDeviceId' = PrioritySelection(videoDevices').deviceId]_vars

\* C10 (amended): the selection is the first device of the list whose label
\* contains any of the three keywords, else the first device.
C10_FirstKeywordMatch ==
    [][(GetDevicesResolved(NoDevice, videoDevices') /\ Len(videoDevices') > 0)
          => selectedDeviceId' =
               FirstOf(videoDevices',
                       BackDevices \cup VirtualDevices \cup PhoneDevices).deviceId]_vars

\* the first run found a virtual camera listed before a back camera and after a
\* plain one, and selected it
C10_Witness ==
    /\ videoDevices = <<DevPlain, DevVirtual, DevBack>>
    /\ selectedDeviceId = DevVirtual.deviceId
    /\ runs = SetToBag({DevVirtual.deviceId})

\* C11: a getDevices run that fails in the permission request or in the
\* enumeration ends in its catch block without raising anything, and leaves
\* videoDevices and selectedDeviceId as they were.
C11_FailedRefreshKeepsRegistry ==
    [][\A sel \in Selections :
          GetDevicesFailed(sel) => UNCHANGED <<videoDevices, selectedDeviceId, alertOpen>>]_vars

\* the getDevices run of the mount effect has failed: no run is pending, and the
\* list and the selection are the ones it found
C11_Witness ==
    /\ videoDevices = <<>>
    /\ selectedDeviceId = NoDevice
    /\ runs = EmptyBag

\* C12: analyzeWeedImage never rejects (the catch block of runAnalysis and its
\* alert are never reached), and on a rate-limit signal and on every other
\* failure it resolves to a result with detections = [], estimatedYieldLoss = 0,
\* herbicideDosage = 0 and cropContext the dataset it was called with.
C12_AnalyzerNeverRejects ==
    [][\A kind \in FailureKinds :
          AnalysisReturns([kind |-> kind])
              => /\ ~alertOpen'
                 /\ Len(analysisResult') = 1
                 /\ analysisResult'[1].detectionsDefined
                 /\ analysisResult'[1].detections = <<>>
                 /\ analysisResult'[1].estimatedYieldLoss = 0
                 /\ analysisResult'[1].herbicideDosage = 0
                 /\ analysisResult'[1].cropContext = analysisPending[1]]_vars

\* a request for "Beet" hit the rate limit and its fallback result is displayed
\* after the user has selected "Cotton" again
C12_Witness ==
    /\ analysisResult # <<>>
    /\ analysisResult[1].remediationAdvice = "rate limit"
    /\ analysisResult[1].cropContext = "Beet"
    /\ selectedDataset = "Cotton"
    /\ ~alertOpen

\* C13: in every session, a tick that fires while no dispatch is outstanding is
\* not dropped by the in-flight test, so with the video ready it calls
\* analyzeWeedImage.
C13_IdleTickDispatches ==
    (interval # NoStream /\ TotalInflight = 0) => ~InFlightGuard

\* the response that carries the detections of batch
JsonOutcome(batch) ==
    [kind |-> "json", cropContext |-> "Beet", estimatedYieldLoss |-> 12,
     herbicideDosage |-> 3, detections |-> batch]

\* the exact percentages of a box given in tenths: xMin*100 is 10 times the
\* numerator of xMin
ExactPercent(box) ==
    [x |-> 10 * box[2], y |-> 10 * box[1],
     w |-> 10 * (box[4] - box[2]), h |-> 10 * (box[3] - box[1])]

\* the numbers with the integer values from 0 to 100, evaluated once
IntegerNumber == [n \in 0..100 |-> Stored(FromInteger(n))]

\* |v - n| < 2^-40
Near(v, n) ==
    LET e == IF v.exp < 0 THEN 0 - v.exp ELSE 0
        a == ShiftLeft(v.sig, v.exp + e)
        b == ShiftLeft(FromNat(n), e)
        diff == IF GeBits(a, b) THEN SubBits(a, b) ELSE SubBits(b, a)
    IN  diff = <<>> \/ Len(diff) + 40 <= e

\* the numbers that occur as a coordinate of a region
RegionNumbers ==
    UNION {{ViewportPercents[b].x, ViewportPercents[b].y,
            ViewportPercents[b].w, ViewportPercents[b].h} : b \in ParsedBoxes}

\* for each of them, the integers from 0 to 100 it is near to, evaluated once
NearIntegers == [v \in RegionNumbers |-> {n \in 0..100 : Near(Unstored(v), n)}]

\* C14 (as claimed): a region has the category and the confidence of its
\* detection and, for the box [yMin, xMin, yMax, xMax] of that detection,
\* left = xMin*100, top = yMin*100, width = (xMax-xMin)*100 and
\* height = (yMax-yMin)*100 (so that [0.1, 0.2, 0.4, 0.6] gives 20, 10, 40, 30).
\* (in the cycles explored the box of a detection is the box of its category)
C14_ExactGeometry ==
    \A k \in 1..Len(liveDetections) :
        LET r == liveDetections[k]
            p == ExactPercent(CycleBox[r.label])
        IN  /\ r.conf = ApiDetection(r.label, NoBox).confidence
            /\ r.x = IntegerNumber[p.x]
            /\ r.y = IntegerNumber[p.y]
            /\ r.w = IntegerNumber[p.w]
            /\ r.h = IntegerNumber[p.h]

\* C14 (amended): category, confidence, left and top are as claimed; width and
\* height are the binary64 results of the subtraction and the product, which are
\* within 2^-40 of (xMax-xMin)*100 and (yMax-yMin)*100 without always being
\* equal to them.
C14_RoundedGeometry ==
    \A k \in 1..Len(liveDetections) :
        LET r == liveDetections[k]
            p == ExactPercent(CycleBox[r.label])
        IN  /\ r.conf = ApiDetection(r.label, NoBox).confidence
            /\ r.x = IntegerNumber[p.x]
            /\ r.y = IntegerNumber[p.y]
            /\ p.w \in NearIntegers[r.w]
            /\ p.h \in NearIntegers[r.h]

\* 30.000000000000004, the number after 30: 30 + 2^-48
AfterThirty == Stored(Canonical(AddBits(ShiftLeft(FromNat(30), 48), <<1>>), 0 - 48))

\* the region of a detection with the box [0.1, 0.2, 0.4, 0.6] is displayed:
\* left 20, top 10, width 40, height 30.000000000000004
C14_Witness ==
    \E k \in 1..Len(liveDetections) :
        /\ liveDetections[k].label = "Fat Hen"
        /\ liveDetections[k].x = IntegerNumber[20]
        /\ liveDetections[k].y = IntegerNumber[10]
        /\ liveDetections[k].w = IntegerNumber[40]
        /\ liveDetections[k].h = AfterThirty

\* allRegions filtered where category is not in hidden, in the order of allRegions
RECURSIVE VisibleRegions(_, _)
VisibleRegions(allRegions, hidden) ==
    IF allRegions = <<>> THEN <<>>
    ELSE (IF Head(allRegions).label \in hidden THEN <<>> ELSE <<Head(allRegions)>>)
            \o VisibleRegions(Tail(allRegions), hidden)

\* C15: whenever the overlay is rendered, the regions it shows are the regions of
\* liveDetections whose category is not in disabledWeedTypes, in the same
\* order; a toggle flips the category and the overlay shows the regions already
\* in liveDetections filtered by the new hidden set.
C15_FilterCorrect ==
    [][/\ stream' # NoStream => renderLive' = VisibleRegions(liveDetections', disabledWeedTypes')
       /\ \A type \in Categories :
             ToggleVisibility(type)
                 => /\ (type \in disabledWeedTypes') # (type \in disabledWeedTypes)
                    /\ renderLive' = VisibleRegions(liveDetections, disabledWeedTypes')]_vars

\* one region of each category is in the list, "Redshank" is hidden and the
\* overlay shows the "Fat Hen" region only
C15_Witness ==
    /\ stream # NoStream
    /\ Len(liveDetections) = 2
    /\ {liveDetections[i].label : i \in 1..2} = Categories
    /\ disabledWeedTypes = {"Redshank"}
    /\ Len(renderLive) = 1
    /\ renderLive[1].label = "Fat Hen"

\* the categories of a batch
BatchCategories(batch) == {batch[i].weedType : i \in 1..Len(batch)}

\* C16: recording a batch leaves detectedWeedTypes equal to the old set united
\* with the categories of the batch; when all of them are already known the
\* updater returns the old Set object itself, so that no state update happens.
C16_RecordIsIdempotentUnion ==
    [][\A e \in StreamIds :
          (inflight'[e] < inflight[e] /\ IsMounted(e))
              => \A batch \in CycleBatches :
                    detectedWeedTypes' = RecordCategories(detectedWeedTypes, batch)
                        => /\ detectedWeedTypes' =
                                 detectedWeedTypes \cup BatchCategories(batch)
                           /\ BatchCategories(batch) \subseteq detectedWeedTypes
                                 => ReturnsPrev(detectedWeedTypes, batch)
                           /\ ReturnsPrev(detectedWeedTypes', batch)]_vars

\* both categories are known, the user has hidden both, and a later cycle, whose
\* detections were all known, has replaced the regions by one region
C16_Witness ==
    /\ detectedWeedTypes = Categories
    /\ disabledWeedTypes = Categories
    /\ Len(liveDetections) = 1
    /\ liveDetections[1].id = MaxTime

\* C17: every region of liveDetections has a category that is in
\* detectedWeedTypes.
C17_RegionsAreKnown ==
    \A i \in 1..Len(liveDetections) : liveDetections[i].label \in detectedWeedTypes

\* a cycle has recorded two categories and displays a region of each
C17_Witness ==
    /\ Len(liveDetections) = 2
    /\ liveDetections[1].label # liveDetections[2].label
    /\ detectedWeedTypes = Categories

\* C18: a category that a reconciliation adds to detectedWeedTypes is not in
\* disabledWeedTypes, in every session.
C18_NewCategoryVisible ==
    [][\A type \in Categories :
          (type \notin detectedWeedTypes /\ type \in detectedWeedTypes')
              => type \notin disabledWeedTypes']_vars

\* C19: a failed acquisition of toggleCamera or of handleDeviceChange opens an
\* alert; the return of analyzeWeedImage to the live loop never does.
C19_AcquisitionFailureSurfaced ==
    [][/\ (StartFailed \/ SwitchFailed) => alertOpen'
       /\ AnalyzerReturns => ~alertOpen']_vars

\* the ids of a list of regions
RegionIds(regions) == {regions[i].id : i \in 1..Len(regions)}

\* C20: the regions of one cycle have different ids, and none of them has the id
\* of a region of the cycle before.
\* (a step that takes a call out of inflight[e] for the mounted effect run e is
\* a reconciliation)
C20_RegionIdsUnique ==
    [][\A e \in StreamIds :
          (inflight'[e] < inflight[e] /\ IsMounted(e))
              => /\ Cardinality(RegionIds(liveDetections')) = Len(liveDetections')
                 /\ RegionIds(liveDetections') \cap RegionIds(liveDetections) = {}]_vars

\* C21: isLiveInferencing is cleared at the end of every cycle that set it, on
\* every path, so that it is true only while a call of analyzeWeedImage is
\* outstanding.
C21_FlagOnlyWhileOutstanding == isLiveInferencing => TotalInflight > 0

WithBox(batch) == SelectSeq(batch, LAMBDA d : Len(d.box_2d) >= 4)

\* C23: after a reconciliation of a batch by the running effect, liveDetections
\* is the list of the batch's detections that carry a box of at least 4 numbers,
\* each mapped to its region, in batch order: the other detections are dropped
\* and nothing of the list before is kept.
C23_RegionsReplacedByBatch ==
    [][\A e \in StreamIds :
          (inflight'[e] < inflight[e] /\ IsMounted(e))
              => \A batch \in ApiBatches, now \in SessionTimes :
                    DispatchComplete(e, JsonOutcome(batch), now)
                        => /\ Len(liveDetections') = Len(WithBox(batch))
                           /\ \A k \in 1..Len(liveDetections') :
                                 LET r == liveDetections'[k]
                                     d == WithBox(batch)[k]
                                     p == ViewportPercents[ParsedBox(d.box_2d)]
                                 IN  /\ r.label = d.weedType
                                     /\ r.conf = d.confidence
                                     /\ <<r.x, r.y, r.w, r.h>> = <<p.x, p.y, p.w, p.h>>]_vars

\* one region is displayed while both categories are known: the batch that
\* brought the region had a second detection, which had no box
C23_Witness ==
    /\ Len(liveDetections) = 1
    /\ liveDetections[1].label = "Fat Hen"
    /\ detectedWeedTypes = Categories
    /\ disabledWeedTypes = {}
    /\ TotalInflight = 0

\* C24: a click on a category of the filter menu flips the membership of that
\* category in disabledWeedTypes and of no other, leaves detectedWeedTypes and
\* liveDetections as they were, and a second click on it gives the first set back.
C24_ToggleFlipsOne ==
    [][\A type \in Categories :
          ToggleVisibility(type)
              => /\ (type \in disabledWeedTypes') # (type \in disabledWeedTypes)
                 /\ disabledWeedTypes' \ {type} = disabledWeedTypes \ {type}
                 /\ UNCHANGED <<detectedWeedTypes, liveDetections>>
                 /\ Toggled(disabledWeedTypes', type) = disabledWeedTypes]_vars

\* "Fat Hen" is hidden and "Redshank" is not, with a region of each in the list
C24_Witness ==
    /\ disabledWeedTypes = {"Fat Hen"}
    /\ detectedWeedTypes = Categories
    /\ Len(liveDetections) = 2
    /\ liveDetections[1].label # liveDetections[2].label

\* C25: while a session is active no step other than the stop removes a category
\* from detectedWeedTypes: not a cycle result, a toggle, a getDevices run or a
\* device switch.
C25_KnownGrowsInSession ==
    [][(stream # NoStream /\ ~ToggleCameraStop)
          => detectedWeedTypes \subseteq detectedWeedTypes']_vars

\* the session has switched to a second stream without a stop, and both
\* categories are known
C25_Witness ==
    /\ stream = 2
    /\ userStopped = {}
    /\ detectedWeedTypes = Categories
    /\ liveDetections = <<>>

\* C26: disabledWeedTypes only holds categories that were recorded into
\* detectedWeedTypes at some time: a category enters it only while it is in
\* detectedWeedTypes, no step other than a click of the filter menu changes it,
\* and so nothing prunes it when a category is no longer known.
C26_HiddenWasKnown ==
    [][/\ \A type \in Categories :
             (type \notin disabledWeedTypes /\ type \in disabledWeedTypes')
                 => type \in detectedWeedTypes
       /\ disabledWeedTypes' # disabledWeedTypes
             => \E type \in Categories : ToggleVisibility(type)]_vars

\* a later session knows "Redshank" only, and "Fat Hen", hidden in an earlier
\* session, is still hidden
C26_Witness ==
    /\ stream # NoStream
    /\ userStopped # {}
    /\ detectedWeedTypes = {"Redshank"}
    /\ disabledWeedTypes = Categories

\* C27: the interval registered is the one of the effect run for the current
\* stream state: there is none while the stream is null, and when the stream
\* changes the one of the stream before is cleared before the new one is
\* registered, so that every tick is a tick of the current session.
C27_TimerOfCurrentStream == interval = stream /\ mountedEffect = stream

\* a session was stopped and the session on the second stream has its timer
C27_Witness ==
    /\ stream = 2
    /\ interval = 2
    /\ 1 \in userStopped
    /\ inflight[1] > 0

\* C28: exactly one devicechange handler is subscribed at any time, the one whose
\* getDevices captured the current selectedDeviceId (the handler before is
\* removed when the selection changes), so every devicechange signal starts one
\* getDevices run, which uses the current selection.
C28_OneHandlerOfCurrentSelection ==
    [][/\ listeners = SetToBag({selectedDeviceId})
       /\ listeners' = SetToBag({selectedDeviceId'})
       /\ DeviceChanged => runs' = runs (+) SetToBag({selectedDeviceId})]_vars

\* a device is selected, its handler is the one subscribed, and MaxRuns runs
\* are pending, a run for the current selection among them
C28_Witness ==
    /\ selectedDeviceId # NoDevice
    /\ BagIn(selectedDeviceId, runs)
    /\ BagCardinality(runs) = MaxRuns
    /\ listeners = SetToBag({selectedDeviceId})
    /\ videoDevices # <<>>

\* the last stream handed out was ended by the stop branch of toggleCamera:
\* the user has stopped the session and no stream was acquired since
StoppedByUser == stream = NoStream /\ streamCount \in userStopped

\* C29: once the user has stopped the session the stream state stays null and
\* nothing is dispatched until a start: no acquisition of handleDeviceChange that
\* was pending at the stop sets the stream afterwards.
C29_StopIsFinal ==
    [][StoppedByUser
          => /\ stream' # NoStream => pendingStart' < pendingStart
             /\ \A e \in StreamIds : inflight'[e] <= inflight[e]]_vars

\* C30: every stream obtained from the platform, by toggleCamera, by
\* handleDeviceChange or by the permission request of a getDevices run, is the
\* current stream or has had its tracks stopped.
C30_NoStreamLeak == ~permissionHeld /\ LiveStreams \subseteq {stream}

\* C31: while the stream state is null liveDetections and detectedWeedTypes are
\* empty, whether the session ended by the stop branch of toggleCamera or by a
\* failed acquisition of handleDeviceChange.
C31_NoSessionNoRegions ==
    stream = NoStream => (liveDetections = <<>> /\ detectedWeedTypes = {})


\* C32: while a session is active and no acquisition of handleDeviceChange is
\* pending, the device the stream of the stream state was opened on is
\* selectedDeviceId.
C32_StreamOnSelectedDevice ==
    (stream # NoStream /\ pendingSwitch = 0) => streamDevice = selectedDeviceId


\* C33: when the user selects a device in the select element while getDevices
\* runs await the platform, each of those runs, completing with an enumeration
\* that holds the device, leaves it selected.
C33_RefreshKeepsNewerSelection ==
    [][\A newDeviceId \in Selections :
          HandleDeviceChange(newDeviceId)
          => \A sel \in BagToSet(runs), D \in RegistryLists :
                newDeviceId \in DeviceIds(D)
                => SelectionAfterRefresh(sel, D, selectedDeviceId') = newDeviceId]_vars

\* C34: while an acquisition of handleDeviceChange is pending and the stream of
\* the stream state has had its tracks stopped, no timer tick reaches the call
\* of analyzeWeedImage.
C34_NoDispatchDuringSwitch ==
    [][(pendingSwitch > 0 /\ stream \in stopped) => ~TickDispatch]_vars
====
